---- MODULE Spec2Model ----
(***************************************************************************)
(* A model of package haversine (src/haversine.go): the function Haversine *)
(* with its helpers degToRad, isValidLatitude and isValidLongitude.        *)
(*                                                                         *)
(* The program computes on float64 values, so the model carries IEEE 754   *)
(* binary64 arithmetic: a value is a sign, a 53-bit significand and a      *)
(* binary exponent (or an infinity, or NaN), and every operation rounds to *)
(* nearest, ties to even, as the Go build for amd64 does (no fused         *)
(* multiply-add).  A significand does not fit the 32-bit integers of TLC,  *)
(* so natural numbers of any size are kept as sequences of limbs.          *)
(***************************************************************************)
EXTENDS Integers, Sequences, FiniteSets, TLC

(***************************************************************************)
(* Natural numbers of any size: little-endian sequences of limbs, each in  *)
(* 0..Base-1, without leading (high) zero limbs; zero is << >>.            *)
(***************************************************************************)
\* Two limbs multiply to less than 2^28, and eight such products add up
\* within the 32-bit integers of TLC.
LimbBits == 28 \div 2

Base == 2^LimbBits

\* The last value of s.  TLC evaluates a definition of a LET, or an argument
\* of an operator, where it is first used, however deep in the evaluation
\* that is; it evaluates the values of a tuple in their order.  Listing the
\* steps of a computation in a tuple thus evaluates each step on its own,
\* one after the other, which keeps the evaluation of TLC shallow.
InOrder(s) == s[Len(s)]

(***************************************************************************)
(* Calls.  An operation that is used in many places is reached through     *)
(* Call, by its name and with its arguments in a tuple, and is defined     *)
(* once, further down, under the name Call gives it.  The specification    *)
(* that TLC unfolds for its statistics then holds each operation once per  *)
(* statement of the program, not once per path of calls that leads to it.  *)
(***************************************************************************)
RECURSIVE Call(_, _)

\* The operations of float64: rounding, x + y, x * y, x / y and sqrt(x).
Round(s, n, e, sticky) == Call("round", <<s, n, e, sticky>>)

FAdd(x, y) == Call("+", <<x, y>>)

FMul(x, y) == Call("*", <<x, y>>)

FDiv(x, y) == Call("/", <<x, y>>)

FSqrt(x) == Call("sqrt", <<x>>)

\* The long division of natural numbers.
BDivMod(x, y) == Call("divmod", <<x, y>>)

\* The calls of package math: math.Sin(x), math.Cos(x), math.Pow(x, y) and
\* math.Atan2(y, x) of the program, Atan(y/x) of Atan2 and xatan(x) of satan.
mathSin(x) == Call("math.Sin", <<x>>)

mathCos(x) == Call("math.Cos", <<x>>)

mathPow(x, y) == Call("math.Pow", <<x, y>>)

mathAtan2(y, x) == Call("math.Atan2", <<y, x>>)

callAtan(x) == Call("math.Atan", <<x>>)

callXatan(x) == Call("xatan", <<x>>)

\* The end of math.Sin and of math.Cos, which is the same code in both.
callTrig(sign, cosine, z) == Call("trig", <<sign, cosine, z>>)

\* The right-hand sides of the statements "a := ..." and "c := ...".
StatementA(lat1, lat2, dLat, dLon) == Call("a", <<lat1, lat2, dLat, dLon>>)

StatementC(a) == Call("c", <<a>>)

\* x without its high zero limbs.
BNorm(x) ==
    LET nz == {i \in 1..Len(x) : x[i] # 0}
    IN  SubSeq(x, 1, IF nz = {} THEN 0 ELSE CHOOSE i \in nz : \A j \in nz : j <= i)

\* Limb i of x (1-based), zero beyond its length.
Limb(x, i) == IF i >= 1 /\ i <= Len(x) THEN x[i] ELSE 0

\* The natural number whose (possibly negative or oversized) limbs are x,
\* provided that number is not negative: carries are floored divisions.
\* Two limbs are carried at a time.
RECURSIVE CarryFrom(_, _, _)
CarryFrom(x, i, c) ==
    IF i > Len(x)
    THEN IF c = 0 THEN <<>>
         ELSE <<c % Base>> \o CarryFrom(x, i, c \div Base)
    ELSE IF i = Len(x)
    THEN <<(x[i] + c) % Base>> \o CarryFrom(x, i + 1, (x[i] + c) \div Base)
    ELSE <<(x[i] + c) % Base, (x[i + 1] + (x[i] + c) \div Base) % Base>>
            \o CarryFrom(x, i + 2, (x[i + 1] + (x[i] + c) \div Base) \div Base)

Carry(x) == BNorm(CarryFrom(x \o <<>>, 1, 0))

Max(a, b) == IF a >= b THEN a ELSE b

Min(a, b) == IF a <= b THEN a ELSE b

BFromInt(n) == Carry(<<n>>)

\* x as an integer of TLC; only for x below 2^28.
BToInt(x) == Limb(x, 1) + Base * Limb(x, 2)

BAdd(x, y) == Carry([i \in 1..Max(Len(x), Len(y)) |-> Limb(x, i) + Limb(y, i)])

\* x - y for x >= y.
BSub(x, y) == Carry([i \in 1..Max(Len(x), Len(y)) |-> Limb(x, i) - Limb(y, i)])

\* -1, 0 or 1 as x is below, equal to or above y: the highest limb in which
\* they differ decides.
BCmp(x, y) ==
    LET d == {i \in 1..Len(x) : x[i] # y[i]}
        h == CHOOSE i \in d : \A j \in d : j <= i
    IN  IF Len(x) < Len(y) THEN -1
        ELSE IF Len(x) > Len(y) THEN 1
        ELSE IF d = {} THEN 0
        ELSE IF x[h] < y[h] THEN -1 ELSE 1

\* Column k of the product: the sum of x[i] * y[k + 1 - i].
RECURSIVE Conv(_, _, _, _)
Conv(x, y, k, i) ==
    IF i > Min(k, Len(x)) THEN 0
    ELSE x[i] * y[k + 1 - i] + Conv(x, y, k, i + 1)

BMul(x, y) ==
    IF x = <<>> \/ y = <<>> THEN <<>>
    ELSE Carry([k \in 1..(Len(x) + Len(y) - 1) |->
                   Conv(x, y, k, Max(1, k + 1 - Len(y)))])

\* x * 2^n.
BShl(x, n) ==
    IF x = <<>> THEN x
    ELSE LET q == n \div LimbBits
             r == n % LimbBits
         IN  [i \in 1..q |-> 0] \o Carry([i \in 1..Len(x) |-> x[i] * 2^r])

\* floor(x / 2^n).
BShr(x, n) ==
    LET q == n \div LimbBits
        r == n % LimbBits
    IN  IF q >= Len(x) THEN <<>>
        ELSE Carry([i \in 1..(Len(x) - q) |->
                       (x[i + q] \div 2^r) + (Limb(x, i + q + 1) % 2^r) * 2^(LimbBits - r)])

\* Whether one of the low n bits of x is set.
BLowBits(x, n) ==
    LET q == n \div LimbBits
        r == n % LimbBits
    IN  \/ \E i \in 1..Min(q, Len(x)) : x[i] # 0
        \/ Limb(x, q + 1) % 2^r # 0

\* Bit i of x (bit 0 the lowest).
BBit(x, i) == (Limb(x, (i \div LimbBits) + 1) \div 2^(i % LimbBits)) % 2

\* The number of bits of n, for 0 <= n < Base * Base.
IntBitLen(n) == Cardinality({k \in 0..(2 * LimbBits - 1) : 2^k <= n})

\* The number of bits of x: 0 for zero.
BBitLen(x) ==
    IF x = <<>> THEN 0
    ELSE (Len(x) - 1) * LimbBits + IntBitLen(x[Len(x)])

BOdd(x) == Limb(x, 1) % 2 = 1

BOne == <<1>>

\* floor(x / y) and x - y * floor(x / y), for y # 0, by long division on
\* the limbs of x.  A quotient limb is first estimated from the leading bits
\* of the remainder and of y, never above its value, and then corrected.
RECURSIVE DivFix(_, _, _)
DivFix(d, r, y) ==
    IF InOrder(<<r, BCmp(r, y)>>) >= 0 THEN DivFix(d + 1, BSub(r, y), y) ELSE <<d, r>>

\* The digit floor(r1 / y) and the remainder, from an estimate d0 of the
\* digit that is not above it.
DivRem(r1, y, d0, m) == InOrder(<<m, DivFix(d0, BSub(r1, m), y)>>)

DivDigit(r1, y, d0) == DivRem(r1, y, d0, BMul(y, BFromInt(d0)))

\* One step: the digit floor(r1 / y) and the remainder, for r1 < y * Base;
\* ytop is y without its low s bits, a number of at most LimbBits bits.
DivStep(r1, y, s, ytop) ==
    DivDigit(r1, y, BToInt(BShr(r1, s)) \div (IF s = 0 THEN ytop ELSE ytop + 1))

\* The digits q with the digit of the step st before them, and its remainder.
DivNext(q, st) == << <<st[1]>> \o q, st[2] >>

\* The limbs i down to 1 of x are still to be divided; qr holds the digits
\* found so far and the remainder of the limbs above i.
RECURSIVE DivFrom(_, _, _, _, _, _)
DivFrom(x, y, s, ytop, i, qr) ==
    IF i = 0 THEN qr
    ELSE IF qr[2] = <<>> /\ x[i] = 0
    THEN DivFrom(x, y, s, ytop, i - 1, << <<0>> \o qr[1], <<>> >>)
    ELSE DivFrom(x, y, s, ytop, i - 1,
                 DivNext(qr[1], DivStep(BNorm(<<x[i]>> \o qr[2]), y, s, ytop)))

\* The top limbs of x, one fewer than y has, are below y: the division
\* starts with them as the remainder.
LongDiv(x, y) ==
    LET s  == Max(0, BBitLen(y) - LimbBits)
        n  == Len(x)
        h  == Min(n, Len(y) - 1)
        qr == DivFrom(x, y, s, BToInt(BShr(y, s)), n - h, << <<>>, SubSeq(x, n - h + 1, n) >>)
    IN  [quo |-> BNorm(qr[1]), rem |-> qr[2]]

\* floor(sqrt(v)) for 0 <= v < Base * Base: its high and its low half.
IntSqrt(v) ==
    LET half == 2^(LimbBits \div 2)
        hi   == half * Cardinality({h \in 1..(half - 1) : (h * half) * (h * half) <= v})
    IN  hi + Cardinality({l \in 1..(half - 1) : (hi + l) * (hi + l) <= v})

\* floor(sqrt(x)) for x # 0 by Newton's iteration from r >= floor(sqrt(x)):
\* the iterates decrease down to the root.
RECURSIVE SqrtFrom(_, _)
SqrtFrom(x, r) ==
    LET d == BDivMod(x, r).quo
        t == BShr(BAdd(r, d), 1)
    IN  IF InOrder(<<d, t, BCmp(t, r)>>) >= 0 THEN r ELSE SqrtFrom(x, t)

\* The iteration starts above the root of the leading 2 * LimbBits bits of x
\* (or two bits fewer), the s bits below them taken as all set.
BSqrt(x) ==
    LET s == 2 * ((Max(0, BBitLen(x) - 2 * LimbBits) + 1) \div 2)
    IN  IF x = <<>> THEN x
        ELSE SqrtFrom(x, BShl(BFromInt(IntSqrt(BToInt(BShr(x, s))) + 1), s \div 2))

(***************************************************************************)
(* float64.  A finite value is (-1)^s * m * 2^e with m below 2^53; a       *)
(* normal value has m of exactly 53 bits, a subnormal one has e = ExpMin,  *)
(* and a zero has m = << >> and keeps its sign.  Every value has one       *)
(* representation, so equal records are equal values (and NaN is one       *)
(* record: the program never looks at a NaN's payload).                    *)
(***************************************************************************)
MantBits == 53

ExpMin == -1074

ExpMax == 971

NaN == [k |-> "nan", s |-> 0, e |-> 0, m |-> <<>>]

Inf(s) == [k |-> "inf", s |-> s, e |-> 0, m |-> <<>>]

Zero(s) == [k |-> "fin", s |-> s, e |-> 0, m |-> <<>>]

IsNaN(x) == x.k = "nan"

IsInf(x) == x.k = "inf"

IsZero(x) == x.k = "fin" /\ x.m = <<>>

Signbit(x) == x.s = 1

\* A finite value that is not a zero.
IsNumber(x) == x.k = "fin" /\ x.m # <<>>

Pack(s, e, m) ==
    IF m = <<>> THEN Zero(s)
    ELSE IF e > ExpMax THEN Inf(s)
    ELSE [k |-> "fin", s |-> s, e |-> e, m |-> m]

\* q, or q + 1 when the bits dropped below q are above one half (half and
\* rest), or are one half (half and not rest) and q is odd.
Nearest(q, half, rest) == IF half /\ (rest \/ BOdd(q)) THEN BAdd(q, BOne) ELSE q

\* m * 2^e1, where rounding up may have carried m to 2^53.
Carried(s, e1, m) ==
    IF BBitLen(m) > MantBits THEN Pack(s, e1 + 1, BShr(m, 1)) ELSE Pack(s, e1, m)

\* Round64 with the exponent e1 of the result: that of a 53-bit significand,
\* or ExpMin for a subnormal result.
RoundAt(s, n, e, e1, sticky) ==
    IF e1 <= e THEN Pack(s, e1, BShl(n, e - e1))
    ELSE Carried(s, e1, Nearest(BShr(n, e1 - e), BBit(n, e1 - e - 1) = 1,
                                sticky \/ BLowBits(n, e1 - e - 1)))

\* The float64 nearest to a value v of sign s with n * 2^e <= |v| < (n+1) * 2^e,
\* where sticky tells whether |v| is above n * 2^e: round to nearest, ties to
\* even.  n is not zero when sticky holds.
Round64(s, n, e, sticky) ==
    IF n = <<>> THEN Zero(s)
    ELSE RoundAt(s, n, e, Max(e + BBitLen(n) - MantBits, ExpMin), sticky)

\* The float64 of the 64 bits w3 w2 w1 w0 (16 bits each, w3 the highest):
\* the sign, 11 bits of biased exponent, 52 bits of fraction.
\* m is the fraction with, for a normal value, the implicit bit 52 above it.
FromBits(s, bexp, nofrac, m) ==
    IF bexp = 2^11 - 1 THEN (IF nofrac THEN Inf(s) ELSE NaN)
    ELSE Pack(s, IF bexp = 0 THEN ExpMin ELSE bexp - 1075, m)

F64(w3, w2, w1, w0) ==
    FromBits(w3 \div 2^15, (w3 \div 16) % 2^11, (w3 % 16) + w2 + w1 + w0 = 0,
             Carry(<<w0, w1 * 2^(16 - LimbBits), w2 * 2^(32 - 2 * LimbBits),
                     ((IF (w3 \div 16) % 2^11 = 0 THEN 0 ELSE 16) + (w3 % 16))
                        * 2^(48 - 3 * LimbBits)>>))

FNeg(x) == IF IsNaN(x) THEN x ELSE [x EXCEPT !.s = 1 - x.s]

FAbs(x) == IF IsNaN(x) THEN x ELSE [x EXCEPT !.s = 0]

Copysign(x, y) == IF IsNaN(x) THEN x ELSE [x EXCEPT !.s = y.s]

\* -1, 0 or 1 as |x| is below, equal to or above |y|; neither is NaN.
MagCmp(x, y) ==
    IF IsInf(x) \/ IsInf(y)
    THEN (IF IsInf(x) THEN 1 ELSE 0) - (IF IsInf(y) THEN 1 ELSE 0)
    ELSE IF IsZero(x) \/ IsZero(y)
    THEN (IF IsZero(y) THEN 1 ELSE 0) - (IF IsZero(x) THEN 1 ELSE 0)
    ELSE IF x.e # y.e THEN (IF x.e < y.e THEN -1 ELSE 1)
    ELSE BCmp(x.m, y.m)

\* -1, 0 or 1 as x is below, equal to or above y; neither is NaN, and the
\* two zeros are equal.
FCmp(x, y) ==
    LET sx == IF IsZero(x) THEN 0 ELSE 1 - 2 * x.s
        sy == IF IsZero(y) THEN 0 ELSE 1 - 2 * y.s
    IN  IF sx # sy THEN (IF sx < sy THEN -1 ELSE 1)
        ELSE sx * MagCmp(x, y)

\* The comparisons of Go: each is false when an operand is NaN.
FEq(x, y) == ~IsNaN(x) /\ ~IsNaN(y) /\ FCmp(x, y) = 0

FLt(x, y) == ~IsNaN(x) /\ ~IsNaN(y) /\ FCmp(x, y) < 0

FLe(x, y) == ~IsNaN(x) /\ ~IsNaN(y) /\ FCmp(x, y) <= 0

FGt(x, y) == ~IsNaN(x) /\ ~IsNaN(y) /\ FCmp(x, y) > 0

FGe(x, y) == ~IsNaN(x) /\ ~IsNaN(y) /\ FCmp(x, y) >= 0

\* (-1)^sa * a * 2^e + (-1)^sb * b * 2^e for a and b not zero; with far, b
\* stands for a value between 0 and 1 that only makes the sum inexact.
AddAligned(sa, a, sb, b, e, far) ==
    IF sa = sb THEN Round(sa, IF far THEN a ELSE BAdd(a, b), e, far)
    ELSE IF BCmp(a, b) = 0 THEN Zero(0)
    ELSE IF BCmp(a, b) > 0 THEN Round(sa, BSub(a, b), e, far)
    ELSE Round(sb, BSub(b, a), e, far)

\* x + y for finite non-zero x and y, the exponent of x not below that of y.
\* When y lies wholly below the last three guard bits of x it only makes
\* the sum inexact.
AddOrdered(x, y) ==
    IF x.e - y.e >= MantBits + 3
    THEN AddAligned(x.s, BShl(x.m, 3), y.s, BOne, x.e - 3, TRUE)
    ELSE AddAligned(x.s, BShl(x.m, x.e - y.e), y.s, y.m, y.e, FALSE)

\* x + y when x or y is a NaN, an infinity or a zero.
AddSpecial(x, y) ==
    IF IsNaN(x) \/ IsNaN(y) THEN NaN
    ELSE IF IsInf(x) THEN (IF IsInf(y) /\ x.s # y.s THEN NaN ELSE x)
    ELSE IF IsInf(y) THEN y
    ELSE IF IsZero(x) THEN (IF IsZero(y) THEN Zero(x.s * y.s) ELSE y)
    ELSE x

Add64(x, y) ==
    IF IsNumber(x) /\ IsNumber(y)
    THEN AddOrdered(IF x.e >= y.e THEN x ELSE y, IF x.e >= y.e THEN y ELSE x)
    ELSE AddSpecial(x, y)

FSub(x, y) == FAdd(x, FNeg(y))

Mul64(x, y) ==
    IF x.k = "fin" /\ y.k = "fin"
    THEN Round((x.s + y.s) % 2, BMul(x.m, y.m), x.e + y.e, FALSE)
    ELSE IF IsNaN(x) \/ IsNaN(y) \/ IsZero(x) \/ IsZero(y) THEN NaN
    ELSE Inf((x.s + y.s) % 2)

\* x / y when x or y is a NaN, an infinity or a zero; s is the sign.
DivSpecial(x, y, s) ==
    IF IsNaN(x) \/ IsNaN(y) THEN NaN
    ELSE IF IsInf(x) THEN (IF IsInf(y) THEN NaN ELSE Inf(s))
    ELSE IF IsInf(y) THEN Zero(s)
    ELSE IF IsZero(y) THEN (IF IsZero(x) THEN NaN ELSE Inf(s))
    ELSE Zero(s)

\* The quotient d of the significands, x's scaled by 2^k, rounded.
DivRounded(s, e, d) == Round(s, d.quo, e, d.rem # <<>>)

\* k is such that the quotient has at least 56 bits.
DivScaled(x, y, k) ==
    DivRounded((x.s + y.s) % 2, x.e - y.e - k, BDivMod(BShl(x.m, k), y.m))

Div64(x, y) ==
    IF IsNumber(x) /\ IsNumber(y)
    THEN DivScaled(x, y, MantBits + 4 + BBitLen(y.m) - BBitLen(x.m))
    ELSE DivSpecial(x, y, (x.s + y.s) % 2)

\* The correctly rounded square root (math.Sqrt is the hardware's): r is
\* the integer part of sqrt(n), and the root is inexact unless r * r = n.
SqrtRounded(n, e, r) == Round(0, r, e, BCmp(BMul(r, r), n) # 0)

SqrtOf(n, e) == SqrtRounded(n, e, BSqrt(n))

\* sqrt(m * 2^e) = sqrt(m * 2^k) * 2^((e - k) / 2) for k of the parity of e.
SqrtScaled(m, e, k) == SqrtOf(BShl(m, k), (e - k) \div 2)

Sqrt64(x) ==
    IF IsNumber(x) /\ ~Signbit(x)
    THEN SqrtScaled(x.m, x.e, 2 * MantBits + 4 - BBitLen(x.m) + ((x.e + BBitLen(x.m)) % 2))
    ELSE IF IsNaN(x) \/ IsZero(x) THEN x
    ELSE IF Signbit(x) THEN NaN
    ELSE x

\* The float64 of sign s and magnitude n, for n below 2^53: the conversion
\* is exact, and shifts n to 53 bits.
Exact(s, n) == Pack(s, BBitLen(n) - MantBits, BShl(n, MantBits - BBitLen(n)))

\* float64(n) for an integer n of small size.
FromInt(n) == Exact(IF n < 0 THEN 1 ELSE 0, BFromInt(IF n < 0 THEN -n ELSE n))

\* uint64(x) for a finite x >= 0 below 2^28: the integer part of x.
ToUint(x) ==
    IF IsZero(x) THEN 0
    ELSE IF x.e >= 0 THEN BToInt(BShl(x.m, x.e))
    ELSE BToInt(BShr(x.m, -x.e))

(***************************************************************************)
(* The constants of the program and of package math, by their bits.        *)
(***************************************************************************)
\* earthRadius = 6371, as the float64 it is converted to in earthRadius * c.
\* Another radius, 6378: with it the distance is no longer that of C7's
\* reference formula.
earthRadius6378 == F64(\h40B8, \hEA00, \h0000, \h0000)

earthRadius == F64(\h40B8, \hE300, \h0000, \h0000)

\* math.Pi = 3.14159265358979323846...
Pi == F64(\h4009, \h21FB, \h5444, \h2D18)

Half == F64(\h3FE0, \h0000, \h0000, \h0000)

One == F64(\h3FF0, \h0000, \h0000, \h0000)

Two == F64(\h4000, \h0000, \h0000, \h0000)

F90 == F64(\h4056, \h8000, \h0000, \h0000)

F180 == F64(\h4066, \h8000, \h0000, \h0000)

\* The constant expressions Pi/2, Pi/4, 3*Pi/4 and 4/Pi of package math: Go
\* evaluates them exactly and rounds once.
PiOver2 == F64(\h3FF9, \h21FB, \h5444, \h2D18)

PiOver4 == F64(\h3FE9, \h21FB, \h5444, \h2D18)

ThreePiOver4 == F64(\h4002, \hD97C, \h7F33, \h21D2)

FourOverPi == F64(\h3FF4, \h5F30, \h6DC9, \hC883)

\* sin.go: Pi/4 split into three parts, and the coefficients _sin and _cos.
PI4A == F64(\h3FE9, \h21FB, \h4000, \h0000)

PI4B == F64(\h3E64, \h442D, \h0000, \h0000)

PI4C == F64(\h3CE8, \h4698, \h98CC, \h5170)

SinCoef ==
    << F64(\h3DE5, \hD8FD, \h1FD1, \h9CCD),    \*  1.58962301576546568060e-10
       F64(\hBE5A, \hE5E5, \hA929, \h1F5D),    \* -2.50507477628578072866e-8
       F64(\h3EC7, \h1DE3, \h567D, \h48A1),    \*  2.75573136213857245213e-6
       F64(\hBF2A, \h01A0, \h19BF, \hDF03),    \* -1.98412698295895385996e-4
       F64(\h3F81, \h1111, \h1110, \hF7D0),    \*  8.33333333332211858878e-3
       F64(\hBFC5, \h5555, \h5555, \h5548) >>  \* -1.66666666666666307295e-1

CosCoef ==
    << F64(\hBDA8, \hFA49, \hA086, \h1A9B),    \* -1.13585365213876817300e-11
       F64(\h3E21, \hEE9D, \h7B4E, \h3F05),    \*  2.08757008419747316778e-9
       F64(\hBE92, \h7E4F, \h7EAC, \h4BC6),    \* -2.75573141792967388112e-7
       F64(\h3EFA, \h01A0, \h19C8, \h44F5),    \*  2.48015872888517045348e-5
       F64(\hBF56, \hC16C, \h16C1, \h4F91),    \* -1.38888888888730564116e-3
       F64(\h3FA5, \h5555, \h5555, \h554B) >>  \*  4.16666666666665929218e-2

\* sin.go: arguments from 2^29 on are reduced by trigReduce.
reduceThreshold == F64(\h41C0, \h0000, \h0000, \h0000)

\* atan.go: the coefficients of xatan and the constants of satan.
AtanP ==
    << F64(\hBFEC, \h007F, \hA1F7, \h2594),    \* P0 = -8.750608600031904122785e-01
       F64(\hC030, \h2854, \h5B6B, \h807A),    \* P1 = -1.615753718733365076637e+01
       F64(\hC052, \hC08C, \h3688, \h0273),    \* P2 = -7.500855792314704667340e+01
       F64(\hC05E, \hB8BF, \h2D05, \hBA25),    \* P3 = -1.228866684490136173410e+02
       F64(\hC050, \h3669, \hFD28, \hEC8E) >>  \* P4 = -6.485021904942025371773e+01

AtanQ ==
    << F64(\h4038, \hDBC4, \h5B14, \h603C),    \* Q0 = 2.485846490142306297962e+01
       F64(\h4064, \hA0DD, \h43B8, \hFA25),    \* Q1 = 1.650270098316988542046e+02
       F64(\h407B, \h0E18, \hD2E2, \hBE3B),    \* Q2 = 4.328810604912902668951e+02
       F64(\h407E, \h563F, \h13B0, \h49EA),    \* Q3 = 4.853903996359136964868e+02
       F64(\h4068, \h519E, \hFBBD, \h62EC) >>  \* Q4 = 1.945506571482613964425e+02

\* pi/2 = PIO2 + Morebits; HalfMorebits is the constant 0.5*Morebits.
Morebits == F64(\h3C91, \hA626, \h3314, \h5C07)

HalfMorebits == F64(\h3C81, \hA626, \h3314, \h5C07)

\* tan(3*pi/8)
Tan3pio8 == F64(\h4003, \h504F, \h333F, \h9DE6)

\* The literal 0.66 of satan.
Satan066 == F64(\h3FE5, \h1EB8, \h51EB, \h851F)

(***************************************************************************)
(* Package math, as the program calls it: Sin, Cos, Sqrt, Atan2 and Pow,   *)
(* each computed the way the pure Go implementation computes it.           *)
(***************************************************************************)
\* x, or -x when b holds.
NegIf(b, x) == IF b THEN FNeg(x) ELSE x

\* "if j&1 == 1 { j++; y++ }": j made even (map zeros to origin).
Even(j) == IF j % 2 = 1 THEN j + 1 ELSE j

\* sin.go, for 0 <= x < reduceThreshold: j := uint64(x * (4 / Pi)), made
\* even, before it is taken modulo 8.
Octant(x) == Even(ToUint(FMul(x, FourOverPi)))

\* z := ((x - y*PI4A) - y*PI4B) - y*PI4C, for y = float64(j).
ReduceArg(x, y) == FSub(FSub(FSub(x, FMul(y, PI4A)), FMul(y, PI4B)), FMul(y, PI4C))

\* (...((acc*z + c[i])*z + c[i+1])*z + ...)*z + c[Len(c)]: a polynomial by
\* Horner's rule.  A NaN stays a NaN through the steps left.
RECURSIVE Horner(_, _, _, _)
Horner(c, z, i, acc) ==
    IF IsNaN(acc) \/ i > Len(c) THEN acc
    ELSE Horner(c, z, i + 1, FAdd(FMul(acc, z), c[i]))

\* ((((((c[1]*zz)+c[2])*zz+c[3])*zz+c[4])*zz+c[5])*zz+c[6])
Poly6(c, zz) == Horner(c, zz, 2, c[1])

\* y = z + z*zz*(...)
SinPoly(z, zz) == FAdd(z, FMul(FMul(z, zz), Poly6(SinCoef, zz)))

\* y = 1.0 - 0.5*zz + zz*zz*(...)
CosPoly(z, zz) == FAdd(FSub(One, FMul(Half, zz)), FMul(FMul(zz, zz), Poly6(CosCoef, zz)))

\* "zz := z * z", then the polynomial of the cosine or of the sine, then
\* "if sign { y = -y }".
TrigPoly(cosine, z, zz) == IF cosine THEN CosPoly(z, zz) ELSE SinPoly(z, zz)

TrigOf(sign, cosine, z) == NegIf(sign, TrigPoly(cosine, z, FMul(z, z)))

\* Sin of sign * ax for the octant j of ax: "j &= 7; if j > 3 { sign = !sign;
\* j -= 4 }", and the cosine polynomial "if j == 1 || j == 2".
SinOctant(sign, j, ax) ==
    callTrig((j % 8 > 3) # sign, (j % 4) \in {1, 2}, ReduceArg(ax, FromInt(j)))

\* Cos of ax: "if j > 3 { j -= 4; sign = !sign }; if j > 1 { sign = !sign }",
\* and the sine polynomial "if j == 1 || j == 2".
CosOctant(j, ax) ==
    callTrig((j % 8 > 3) # (j % 4 > 1), (j % 4) \notin {1, 2}, ReduceArg(ax, FromInt(j)))

\* math.Sin.  An argument from reduceThreshold on would take trigReduce,
\* which no call of the program reaches and the model leaves undefined.
Sin(x) ==
    CASE IsZero(x) \/ IsNaN(x) -> x
      [] IsInf(x) -> NaN
      [] ~IsZero(x) /\ FLt(FAbs(x), reduceThreshold) ->
            SinOctant(Signbit(x), Octant(FAbs(x)), FAbs(x))

\* math.Cos, with the same restriction.
Cos(x) ==
    CASE IsNaN(x) \/ IsInf(x) -> NaN
      [] ~IsNaN(x) /\ FLt(FAbs(x), reduceThreshold) -> CosOctant(Octant(FAbs(x)), FAbs(x))

\* math.Sqrt
Sqrt(x) == FSqrt(x)

\* atan.go: xatan, for x in [0, 0.66].
\* z := x*x;  z = z * ((((P0*z+P1)*z+P2)*z+P3)*z + P4)
\*                   / (((((z+Q0)*z+Q1)*z+Q2)*z+Q3)*z + Q4);  z = x*z + x
xatanOf(x, z) ==
    FAdd(FMul(x, FDiv(FMul(z, Horner(AtanP, z, 2, AtanP[1])),
                      Horner(AtanQ, z, 2, FAdd(z, AtanQ[1])))),
         x)

xatan(x) == xatanOf(x, FMul(x, x))

\* atan.go: satan, for x > 0.
satan(x) ==
    IF FLe(x, Satan066) THEN callXatan(x)
    ELSE IF FGt(x, Tan3pio8)
    THEN FAdd(FSub(PiOver2, callXatan(FDiv(One, x))), Morebits)
    ELSE FAdd(FAdd(PiOver4, callXatan(FDiv(FSub(x, One), FAdd(x, One)))), HalfMorebits)

\* math.Atan
Atan(x) ==
    IF IsZero(x) THEN x
    ELSE IF FGt(x, Zero(0)) THEN satan(x)
    ELSE FNeg(satan(FNeg(x)))

\* The end of math.Atan2, for q = Atan(y/x).
Atan2Of(x, q) ==
    IF FLt(x, Zero(0))
    THEN (IF FLe(q, Zero(0)) THEN FAdd(q, Pi) ELSE FSub(q, Pi))
    ELSE q

\* The special cases of math.Atan2: x or y a NaN, a zero or an infinity.
Atan2Special(y, x) ==
    IF IsNaN(x) \/ IsNaN(y) THEN NaN
    ELSE IF IsZero(y)
    THEN (IF FGe(x, Zero(0)) /\ ~Signbit(x) THEN Copysign(Zero(0), y) ELSE Copysign(Pi, y))
    ELSE IF IsZero(x) THEN Copysign(PiOver2, y)
    ELSE IF IsInf(x)
    THEN (IF ~Signbit(x)
          THEN (IF IsInf(y) THEN Copysign(PiOver4, y) ELSE Copysign(Zero(0), y))
          ELSE (IF IsInf(y) THEN Copysign(ThreePiOver4, y) ELSE Copysign(Pi, y)))
    ELSE Copysign(PiOver2, y)

\* math.Atan2: "q := Atan(y / x)" unless a special case applies.
Atan2(y, x) ==
    IF IsNumber(x) /\ IsNumber(y) THEN Atan2Of(x, callAtan(FDiv(y, x)))
    ELSE Atan2Special(y, x)

\* math.Frexp for a finite non-zero x: x = frac * 2^exp, 1/2 <= |frac| < 1.
Frexp(x) ==
    [frac |-> Round(x.s, x.m, -BBitLen(x.m), FALSE), exp |-> x.e + BBitLen(x.m)]

\* math.Ldexp: frac * 2^exp.
Ldexp(frac, exp) ==
    IF IsZero(frac) \/ IsInf(frac) \/ IsNaN(frac) THEN frac
    ELSE Round(frac.s, frac.m, frac.e + exp, FALSE)

\* pow.go: "x1 *= x1; xe <<= 1; if x1 < .5 { x1 += x1; xe-- }", for sq = x1*x1.
Squared(sq, xe) ==
    IF FLt(sq, Half) THEN [x1 |-> FAdd(sq, sq), xe |-> 2 * xe - 1]
    ELSE [x1 |-> sq, xe |-> 2 * xe]

\* pow.go: the loop "ans *= x**yi" over the bits of i, ans = a1 * 2^ae and
\* the power of x at hand x.x1 * 2^x.xe.
RECURSIVE PowLoop(_, _, _, _)
PowLoop(i, x, a1, ae) ==
    IF i = 0 THEN [a1 |-> a1, ae |-> ae]
    ELSE IF x.xe < -(2^12) \/ 2^12 < x.xe THEN [a1 |-> a1, ae |-> ae + x.xe]
    ELSE PowLoop(i \div 2, Squared(FMul(x.x1, x.x1), x.xe),
                 IF i % 2 = 1 THEN FMul(a1, x.x1) ELSE a1,
                 IF i % 2 = 1 THEN ae + x.xe ELSE ae)

\* "return Ldexp(a1, ae)" with the results of the loop.
PowResult(r) == Ldexp(r.a1, r.ae)

\* "x1, xe := Frexp(x)", the loop, and its result.
PowFrom(i, f) == PowResult(PowLoop(i, [x1 |-> f.frac, xe |-> f.exp], One, 0))

\* math.Pow(x, y) for a finite x and y the float64 of an integer from 2 to
\* 2^28 (the program calls it with y = 2); another y is left undefined.
Pow(x, y) ==
    CASE FEq(x, One) -> One
      [] IsNaN(x) -> NaN
      [] IsZero(x) /\ FGt(y, One) ->
            IF Signbit(x) /\ ToUint(y) % 2 = 1 THEN x ELSE Zero(0)
      [] x.k = "fin" /\ ~IsZero(x) /\ ~FEq(x, One)
            /\ FGt(y, One) /\ y.e + BBitLen(y.m) <= 28 /\ FromInt(ToUint(y)) = y ->
            PowFrom(ToUint(y), Frexp(x))

(***************************************************************************)
(* The program: src/haversine.go.                                          *)
(***************************************************************************)
\* degToRad converts degrees to radians: deg * math.Pi / 180.
degToRad(deg) == FDiv(FMul(deg, Pi), F180)

\* Two other range tests for a latitude.  The first has lost the lower
\* bound, and C1 fails for it; the second is "not (lat < -90 || lat > 90)",
\* which a NaN passes, and C10 fails for it.
isValidLatitudeNoLower(lat) == FLe(lat, F90)

isValidLatitudeNegated(lat) == ~(FLt(lat, FNeg(F90)) \/ FGt(lat, F90))

\* lat >= -90 && lat <= 90
isValidLatitude(lat) == FGe(lat, FNeg(F90)) /\ FLe(lat, F90)

\* A range test for a longitude with the bounds excluded: C6 fails for it.
isValidLongitudeStrict(lon) == FGt(lon, FNeg(F180)) /\ FLt(lon, F180)

\* lon >= -180 && lon <= 180
isValidLongitude(lon) == FGe(lon, FNeg(F180)) /\ FLe(lon, F180)

\* The condition of the if statement of Haversine.
Invalid(lat1, lon1, lat2, lon2) ==
    \/ ~isValidLatitude(lat1)
    \/ ~isValidLatitude(lat2)
    \/ ~isValidLongitude(lon1)
    \/ ~isValidLongitude(lon2)

\* errors.New("haversine: invalid latitude or longitude values"), and nil.
ErrInvalid == "haversine: invalid latitude or longitude values"

Nil == "nil"

\* Another distance to return with the error, 0: C2 fails for it.
SentinelZero == Zero(0)

\* The distance returned with the error: -1.
Sentinel == FNeg(One)

\* A dLat of the sum of the latitudes: C5 fails for it.
DLatOfSum(lat1, lat2) == degToRad(FAdd(lat2, lat1))

\* The statements of Haversine after the validation, one operator each.
DLatOf(lat1, lat2) == degToRad(FSub(lat2, lat1))

DLonOf(lon1, lon2) == degToRad(FSub(lon2, lon1))

\* a := math.Pow(math.Sin(dLat/2), 2) +
\*      math.Cos(degToRad(lat1))*math.Cos(degToRad(lat2))*math.Pow(math.Sin(dLon/2), 2)
AOf(lat1, lat2, dLat, dLon) ==
    FAdd(mathPow(mathSin(FDiv(dLat, Two)), Two),
         FMul(FMul(mathCos(degToRad(lat1)), mathCos(degToRad(lat2))),
              mathPow(mathSin(FDiv(dLon, Two)), Two)))

\* c := 2 * math.Atan2(math.Sqrt(a), math.Sqrt(1-a))
COf(a) == FMul(Two, mathAtan2(Sqrt(a), Sqrt(FSub(One, a))))

\* return earthRadius * c, nil
DistanceOf(c) == FMul(earthRadius, c)

\* The operation of each name on the arguments a.  The arguments are values
\* before the operation starts: Go evaluates them before the call.
Call(name, a) ==
    InOrder(<<a,
        CASE name = "round"      -> Round64(a[1], a[2], a[3], a[4])
          [] name = "+"          -> Add64(a[1], a[2])
          [] name = "*"          -> Mul64(a[1], a[2])
          [] name = "/"          -> Div64(a[1], a[2])
          [] name = "sqrt"       -> Sqrt64(a[1])
          [] name = "divmod"     -> LongDiv(a[1], a[2])
          [] name = "trig"       -> TrigOf(a[1], a[2], a[3])
          [] name = "math.Sin"   -> Sin(a[1])
          [] name = "math.Cos"   -> Cos(a[1])
          [] name = "math.Pow"   -> Pow(a[1], a[2])
          [] name = "math.Atan"  -> Atan(a[1])
          [] name = "math.Atan2" -> Atan2(a[1], a[2])
          [] name = "xatan"      -> xatan(a[1])
          [] name = "a"          -> AOf(a[1], a[2], a[3], a[4])
          [] name = "c"          -> COf(a[1])>>)

\* One whole call of Haversine, run alone: what it returns.
Haversine(lat1, lon1, lat2, lon2) ==
    IF Invalid(lat1, lon1, lat2, lon2)
    THEN [distance |-> Sentinel, err |-> ErrInvalid]
    ELSE [distance |-> DistanceOf(StatementC(StatementA(lat1, lat2,
                                                        DLatOf(lat1, lat2),
                                                        DLonOf(lon1, lon2)))),
          err |-> Nil]

(***************************************************************************)
(* The calls.  Each caller (a goroutine) makes one call of Haversine and    *)
(* runs it statement by statement in a frame of its own: the arguments,     *)
(* the named results distance and err, which Go sets to zero and nil on     *)
(* entry, and the locals dLat, dLon, a and c, which do not exist before     *)
(* their statement has run.  The package has no variable.                   *)
(***************************************************************************)
VARIABLES frames

vars == <<frames>>

\* A local whose statement has not run.
Unset == [k |-> "unset", s |-> 0, e |-> 0, m |-> <<>>]

\* The frame of a call on entry.
Enter(in) ==
    [pc |-> "validate", lat1 |-> in[1], lon1 |-> in[2], lat2 |-> in[3], lon2 |-> in[4],
     distance |-> Zero(0), err |-> Nil,
     dLat |-> Unset, dLon |-> Unset, a |-> Unset, c |-> Unset]

\* A frame shared by all the calls, that of the first caller: C8 fails for it.
FrameOfFirst(g) == frames[1]

\* What a statement of the call of g reads: the frame of that call.
Frame(g) == frames[g]

\* A validation that sets the error and goes on into the formula instead of
\* returning: C9 fails for it.
ValidateAndGoOn(g) ==
    /\ frames[g].pc = "validate"
    /\ LET f == frames[g]
       IN  IF Invalid(f.lat1, f.lon1, f.lat2, f.lon2)
           THEN frames' = [frames EXCEPT ![g].distance = Sentinel,
                                         ![g].err = ErrInvalid,
                                         ![g].pc = "dLat"]
           ELSE frames' = [frames EXCEPT ![g].pc = "dLat"]

\* if !isValidLatitude(lat1) || ... { return -1, errors.New(...) }
Validate(g) ==
    /\ frames[g].pc = "validate"
    /\ LET f == Frame(g)
       IN  IF Invalid(f.lat1, f.lon1, f.lat2, f.lon2)
           THEN frames' = [frames EXCEPT ![g].distance = Sentinel,
                                         ![g].err = ErrInvalid,
                                         ![g].pc = "done"]
           ELSE frames' = [frames EXCEPT ![g].pc = "dLat"]

\* dLat := degToRad(lat2 - lat1)
ComputeDLat(g) ==
    /\ frames[g].pc = "dLat"
    /\ LET f == Frame(g)
       IN  frames' = [frames EXCEPT ![g].dLat = DLatOf(f.lat1, f.lat2),
                                    ![g].pc = "dLon"]

\* dLon := degToRad(lon2 - lon1)
ComputeDLon(g) ==
    /\ frames[g].pc = "dLon"
    /\ LET f == Frame(g)
       IN  frames' = [frames EXCEPT ![g].dLon = DLonOf(f.lon1, f.lon2),
                                    ![g].pc = "a"]

\* a := math.Pow(math.Sin(dLat/2), 2) + ...
ComputeA(g) ==
    /\ frames[g].pc = "a"
    /\ LET f == Frame(g)
       IN  frames' = [frames EXCEPT ![g].a = StatementA(f.lat1, f.lat2, f.dLat, f.dLon),
                                    ![g].pc = "c"]

\* c := 2 * math.Atan2(math.Sqrt(a), math.Sqrt(1-a))
ComputeC(g) ==
    /\ frames[g].pc = "c"
    /\ LET f == Frame(g)
       IN  frames' = [frames EXCEPT ![g].c = StatementC(f.a),
                                    ![g].pc = "return"]

\* return earthRadius * c, nil
Return(g) ==
    /\ frames[g].pc = "return"
    /\ LET f == Frame(g)
       IN  frames' = [frames EXCEPT ![g].distance = DistanceOf(f.c),
                                    ![g].err = Nil,
                                    ![g].pc = "done"]

\* A step is one statement of one of the calls.
Next ==
    \/ \E g \in DOMAIN frames : Validate(g)
    \/ \E g \in DOMAIN frames : ComputeDLat(g)
    \/ \E g \in DOMAIN frames : ComputeDLon(g)
    \/ \E g \in DOMAIN frames : ComputeA(g)
    \/ \E g \in DOMAIN frames : ComputeC(g)
    \/ \E g \in DOMAIN frames : Return(g)

(***************************************************************************)
(* The arguments the calls are made with.                                  *)
(***************************************************************************)
\* The grid has GridDiv + 1 latitudes from -90 to 90 and as many longitudes
\* from -180 to 180.
GridDiv == 2

\* The number of concurrent callers of SpecConc.
NumCallers == 2

GridLat == {FromInt(-90 + k * (180 \div GridDiv)) : k \in 0..GridDiv}

GridLon == {FromInt(-180 + k * (360 \div GridDiv)) : k \in 0..GridDiv}

\* 90.0001 and 180.0001
Lat90p0001 == F64(\h4056, \h8001, \hA36E, \h2EB2)

Lon180p0001 == F64(\h4066, \h8000, \hD1B7, \h1759)

\* The float64 next above 90, and the one next above 180.
NextAbove90 == F64(\h4056, \h8000, \h0000, \h0001)

NextAbove180 == F64(\h4066, \h8000, \h0000, \h0001)

\* Values no latitude may take, and values no longitude may take.
BadLat ==
    {FromInt(91), FromInt(-91), Lat90p0001, FNeg(NextAbove90), NaN, Inf(0), Inf(1)}

BadLon ==
    {FromInt(181), FromInt(-181), Lon180p0001, NextAbove180, NaN, Inf(0), Inf(1)}

\* New York City, Los Angeles, London and Paris, and two points that lie
\* opposite each other on the globe: (-80, -180) and (80, 0).
NewYork == <<F64(\h4044, \h5B3D, \h07C8, \h4B5E), F64(\hC052, \h8062, \h4DD2, \hF1AA)>>

LosAngeles == <<F64(\h4041, \h0706, \hF694, \h4674), F64(\hC05D, \h8F86, \hC226, \h809D)>>

London == <<F64(\h4049, \hC0F2, \h7BB2, \hFEC5), F64(\hBFC0, \h5BC0, \h1A36, \hE2EB)>>

Paris == <<F64(\h4048, \h6DA5, \h119C, \hE076), F64(\h4002, \hD14E, \h3BCD, \h35A8)>>

South80 == <<FromInt(-80), FromInt(-180)>>

North80 == <<FromInt(80), FromInt(0)>>

Places == {NewYork, LosAngeles, London, Paris, South80, North80}

\* Every combination of a grid or bad value in each of the four arguments,
\* and every pair of places.
Inputs ==
    ((GridLat \cup BadLat) \X (GridLon \cup BadLon)
        \X (GridLat \cup BadLat) \X (GridLon \cup BadLon))
    \cup {<<p[1], p[2], q[1], q[2]>> : p \in Places, q \in Places}

\* The arguments of the concurrent callers.
ConcInputs ==
    { <<NewYork[1], NewYork[2], LosAngeles[1], LosAngeles[2]>>,
      <<LosAngeles[1], LosAngeles[2], NewYork[1], NewYork[2]>>,
      <<FromInt(91), FromInt(0), FromInt(0), FromInt(0)>> }

\* One caller, with any of the inputs.
Init == \E in \in Inputs : frames = [g \in {1} |-> Enter(in)]

Spec == Init /\ [][Next]_vars

\* NumCallers callers at once, under every interleaving of their statements.
InitConc == \E ins \in [1..NumCallers -> ConcInputs] : frames = [g \in 1..NumCallers |-> Enter(ins[g])]

SpecConc == InitConc /\ [][Next]_vars

(***************************************************************************)
(* The properties of Haversine, stated over the calls.  The ranges, the    *)
(* sentinel and the reference formula are written here a second time, from *)
(* their meaning, so that the program is compared with something other     *)
(* than itself.                                                            *)
(***************************************************************************)
Callers == DOMAIN frames

Done(g) == frames[g].pc = "done"

Failed(g) == frames[g].err # Nil

\* The call of g has passed the validation and is in the formula.
InFormula(g) == frames[g].pc \in {"dLat", "dLon", "a", "c", "return"}

\* x is a real number of [-bound, bound]; NaN and the infinities are not.
Within(x, bound) ==
    /\ x.k = "fin"
    /\ FCmp(FromInt(-bound), x) <= 0
    /\ FCmp(x, FromInt(bound)) <= 0

\* How many of the four arguments of g are out of range.
NumOutOfRange(g) ==
    Cardinality({n \in {"lat1", "lat2"} : ~Within(frames[g][n], 90)})
        + Cardinality({n \in {"lon1", "lon2"} : ~Within(frames[g][n], 180)})

AllInRange(g) == NumOutOfRange(g) = 0

Args(g) == <<frames[g].lat1, frames[g].lon1, frames[g].lat2, frames[g].lon2>>

Locals(g) == {frames[g].dLat, frames[g].dLon, frames[g].a, frames[g].c}

\* -1 and float64(6371 * math.Pi) = 20015.086796020572
MinusOne == F64(\hBFF0, \h0000, \h0000, \h0000)

MaxDistance == F64(\h40D3, \h8BC5, \h8E10, \hE572)

\* 3935.75 and 343.5
F3935p75 == F64(\h40AE, \hBF80, \h0000, \h0000)

F343p5 == F64(\h4075, \h7800, \h0000, \h0000)

\* |x - y| <= 1
WithinOne(x, y) == FLe(FAbs(FSub(x, y)), FromInt(1))

\* The reference formula, in float64: radians(d) = d*pi/180,
\* a = sin^2(dLat/2) + cos(radians(lat1))*cos(radians(lat2))*sin^2(dLon/2),
\* c = 2*atan2(sqrt(a), sqrt(1-a)), and the distance 6371 * c.
RefRadians(d) == FDiv(FMul(d, Pi), FromInt(180))

RefSquare(s) == FMul(s, s)

RefA(lat1, lon1, lat2, lon2) ==
    FAdd(RefSquare(mathSin(FDiv(RefRadians(FSub(lat2, lat1)), FromInt(2)))),
         FMul(FMul(mathCos(RefRadians(lat1)), mathCos(RefRadians(lat2))),
              RefSquare(mathSin(FDiv(RefRadians(FSub(lon2, lon1)), FromInt(2))))))

RefC(a) == FMul(FromInt(2), mathAtan2(Sqrt(a), Sqrt(FSub(FromInt(1), a))))

Reference(lat1, lon1, lat2, lon2) ==
    FMul(FromInt(6371), RefC(RefA(lat1, lon1, lat2, lon2)))

\* C1: a call returns a non-nil error if and only if at least one of its
\* four arguments is out of range: all in range gives nil, and one argument
\* out of range is enough whatever the other three are.
C1_ErrorIffOutOfRange ==
    \A g \in Callers : Done(g) => (Failed(g) <=> NumOutOfRange(g) >= 1)

\* A call like Haversine(91, 180, 90, -180) has returned an error: only
\* lat1 is out of range.
C1_Witness ==
    \E g \in Callers :
        /\ Done(g) /\ Failed(g)
        /\ frames[g].lat1 = FromInt(91)
        /\ NumOutOfRange(g) = 1

\* C2: whenever a call returns a non-nil error, the distance it returns is
\* exactly -1 and the error is the one kind of error there is, whichever and
\* however many of the arguments are out of range.
C2_SentinelAndOneError ==
    \A g \in Callers :
        Done(g) /\ Failed(g) =>
            /\ frames[g].distance = MinusOne
            /\ frames[g].err = "haversine: invalid latitude or longitude values"

\* A call with all four arguments out of range has returned -1 and the error.
C2_Witness ==
    \E g \in Callers :
        /\ Done(g) /\ Failed(g)
        /\ NumOutOfRange(g) = 4
        /\ frames[g].distance = MinusOne

\* C3: for arguments that are all in range the distance returned is a
\* number from 0 to pi * 6371: not negative, not NaN and not the -1 of the
\* error, antipodal and polar points included.
C3_DistanceInRange ==
    \A g \in Callers :
        Done(g) /\ AllInRange(g) =>
            /\ ~IsNaN(frames[g].distance)
            /\ FGe(frames[g].distance, Zero(0))
            /\ FLe(frames[g].distance, MaxDistance)
            /\ ~FEq(frames[g].distance, MinusOne)

\* C4: for valid points A and B the call from A to B and the call from B to
\* A both return a nil error and distances that are equal (Go's ==).
C4_Symmetry ==
    \A g \in Callers :
        Done(g) /\ AllInRange(g) =>
            /\ frames[g].err = Nil
            /\ Haversine(frames[g].lat2, frames[g].lon2,
                         frames[g].lat1, frames[g].lon1).err = Nil
            /\ FEq(frames[g].distance,
                   Haversine(frames[g].lat2, frames[g].lon2,
                             frames[g].lat1, frames[g].lon1).distance)

\* C5: a call from a valid point to the same point returns the distance 0
\* and a nil error, at the poles and at longitude -180 and 180 as well.
C5_Identity ==
    \A g \in Callers :
        (/\ Done(g) /\ AllInRange(g)
         /\ frames[g].lat1 = frames[g].lat2
         /\ frames[g].lon1 = frames[g].lon2) =>
            /\ frames[g].err = Nil
            /\ IsZero(frames[g].distance)

\* The call Haversine(90, 180, 90, 180) has returned 0 and nil.
C5_Witness ==
    \E g \in Callers :
        /\ Done(g)
        /\ Args(g) = <<FromInt(90), FromInt(180), FromInt(90), FromInt(180)>>
        /\ frames[g].err = Nil
        /\ IsZero(frames[g].distance)

\* C6: the bounds are inclusive.  A call whose arguments are all in range
\* and of which some are exactly -90, 90, -180 or 180 returns nil; a call
\* with an argument beyond a bound, 90.0001 or 180.0001 or the very next
\* float64 above 90 or 180, returns an error.
AtBound(g) ==
    \/ \E x \in {frames[g].lat1, frames[g].lat2} : x \in {FromInt(-90), FromInt(90)}
    \/ \E x \in {frames[g].lon1, frames[g].lon2} : x \in {FromInt(-180), FromInt(180)}

BeyondBound(g) ==
    \/ \E x \in {frames[g].lat1, frames[g].lat2} :
          ~IsNaN(x) /\ (FCmp(x, FromInt(90)) > 0 \/ FCmp(x, FromInt(-90)) < 0)
    \/ \E x \in {frames[g].lon1, frames[g].lon2} :
          ~IsNaN(x) /\ (FCmp(x, FromInt(180)) > 0 \/ FCmp(x, FromInt(-180)) < 0)

C6_InclusiveBounds ==
    \A g \in Callers :
        Done(g) =>
            /\ (AllInRange(g) /\ AtBound(g) => frames[g].err = Nil)
            /\ (BeyondBound(g) => Failed(g))

\* The call Haversine(90, -180, -90, 180), every argument on a bound, has
\* returned nil.
C6_Witness ==
    \E g \in Callers :
        /\ Done(g)
        /\ Args(g) = <<FromInt(90), FromInt(-180), FromInt(-90), FromInt(180)>>
        /\ frames[g].err = Nil

\* C7: on valid input the distance returned is that of the reference
\* formula, 6371 * c; New York City to Los Angeles is within 1 km of 3935.75
\* km and London to Paris within 1 km of 343.5 km.
C7_ReferenceFormula ==
    \A g \in Callers :
        Done(g) /\ AllInRange(g) =>
            /\ frames[g].distance =
                   Reference(frames[g].lat1, frames[g].lon1, frames[g].lat2, frames[g].lon2)
            /\ (Args(g) = NewYork \o LosAngeles => WithinOne(frames[g].distance, F3935p75))
            /\ (Args(g) = London \o Paris => WithinOne(frames[g].distance, F343p5))

\* The call from New York City to Los Angeles has returned.
C7_Witness ==
    \E g \in Callers :
        /\ Done(g)
        /\ Args(g) = NewYork \o LosAngeles
        /\ frames[g].err = Nil
        /\ WithinOne(frames[g].distance, F3935p75)

\* C8: under every interleaving of concurrent calls, each call returns what
\* the same call returns when run alone, two calls with equal arguments
\* return equal outcomes, and a statement of one call changes nothing of
\* another call.
AsAlone(g) ==
    Done(g) =>
        [distance |-> frames[g].distance, err |-> frames[g].err]
            = Haversine(frames[g].lat1, frames[g].lon1, frames[g].lat2, frames[g].lon2)

EqualOutcomes(g, h) ==
    Done(g) /\ Done(h) /\ Args(g) = Args(h) =>
        /\ frames[g].distance = frames[h].distance
        /\ frames[g].err = frames[h].err

OwnFrameOnly ==
    \A g \in Callers : \A h \in Callers :
        frames'[g] # frames[g] /\ h # g => frames'[h] = frames[h]

C8_PureUnderInterleaving ==
    /\ [](\A g \in Callers : AsAlone(g) /\ \A h \in Callers : EqualOutcomes(g, h))
    /\ [][OwnFrameOnly]_vars

\* Two calls with different arguments ran at once and one has returned a
\* distance while the other is still in the formula.
C8_Witness ==
    \E g \in Callers : \E h \in Callers :
        /\ g # h
        /\ Args(g) # Args(h)
        /\ Done(g) /\ ~Failed(g)
        /\ frames[h].pc = "c"

\* C9: the validation comes before the computation.  A call is in the
\* formula only with arguments that are all in range and with no error; a
\* call that returned an error has evaluated none of dLat, dLon, a and c and
\* returns -1; a call that returned nil has evaluated all four and returns
\* the distance computed from c.
C9_ValidationFirst ==
    \A g \in Callers :
        /\ InFormula(g) => AllInRange(g) /\ ~Failed(g)
        /\ Done(g) /\ Failed(g) =>
              Locals(g) = {Unset} /\ frames[g].distance = MinusOne
        /\ Done(g) /\ ~Failed(g) =>
              /\ Unset \notin Locals(g)
              /\ AllInRange(g)
              /\ frames[g].distance = FMul(FromInt(6371), frames[g].c)

\* A call with an argument out of range has returned the error with none of
\* its locals evaluated.
C9_Witness ==
    \E g \in Callers :
        /\ Done(g) /\ Failed(g)
        /\ NumOutOfRange(g) >= 1
        /\ Locals(g) = {Unset}

\* C10: a NaN, +Inf or -Inf in any of the four arguments fails the range
\* check: the call returns -1 and the error, and never enters the formula.
NonFinite(g) == {n \in {"lat1", "lon1", "lat2", "lon2"} : frames[g][n].k # "fin"}

C10_NonFiniteRejected ==
    \A g \in Callers :
        NonFinite(g) # {} =>
            /\ ~InFormula(g)
            /\ Locals(g) = {Unset}
            /\ Done(g) => Failed(g) /\ frames[g].distance = MinusOne

\* The call Haversine(NaN, 180, 90, +Inf) has returned -1 and the error.
C10_Witness ==
    \E g \in Callers :
        /\ Done(g) /\ Failed(g)
        /\ IsNaN(frames[g].lat1)
        /\ frames[g].lon2 = Inf(0)
        /\ frames[g].distance = MinusOne
====
